---- MODULE Spec2Model ----
(***************************************************************************)
(* A model of the reactivity core: ReactiveEffect (run / stop), the        *)
(* tracking context (activeEffect, shouldTrack, effectTrackDepth,          *)
(* trackOpBit, trackStack), track / trackEffects, trigger / triggerEffects *)
(* / triggerEffect, and ComputedRefImpl.                                   *)
(*                                                                         *)
(* The program is single-threaded and re-entrant: an effect body may run   *)
(* other effects, trigger locations and stop effects.  The call stack is   *)
(* explicit (variable stack); an effect body is an arbitrary program, so   *)
(* every step of a body is a nondeterministic choice among the calls a     *)
(* body can make.  The same actions, taken with an empty stack, are the    *)
(* calls made by top-level code.                                           *)
(***************************************************************************)
EXTENDS Naturals, Integers, Sequences, FiniteSets, TLC

\* ------------------------------------------------------------------ bounds
\* Longest call stack explored (frames of effect bodies, dispatch loops and
\* computed getters together).
MaxDepth == 3
\* Longest trackStack explored.
MaxTrackStack == 1
MaxProgram == 4
\* External triggers counted in the scripted self-write scenario.
MaxTriggers == 3
\* .value reads and getter invocations counted for a computed.
MaxScriptDepth == 6

\* --------------------------------------------------------------- constants
maxMarkerBits == 30

None == "none"
Effects == {"e1", "e2"}
\* The effect that backs the computed (ComputedRefImpl.effect).
CompEffect == "ce"
AllEffects == Effects \cup {CompEffect}

ITERATE_KEY == "iterate"
MAP_KEY_ITERATE_KEY == "Map key iterate"
Targets == {"obj", "arr", "map"}
isArray(t) == t = "arr"
isMap(t) == t = "map"
IndexKeys == {"0", "1", "2"}
isIntegerKey(k) == k \in IndexKeys
\* A symbol key other than the built-in symbols, which the get trap tracks.
SymbolKey == "Symbol(x)"
isSymbol(k) == k \in {SymbolKey, ITERATE_KEY, MAP_KEY_ITERATE_KEY}
KeysOf(t) ==
  IF isArray(t) THEN IndexKeys \cup {"length", "b", SymbolKey, ITERATE_KEY}
  ELSE IF isMap(t) THEN {"a", ITERATE_KEY, MAP_KEY_ITERATE_KEY}
  ELSE {"a", "b", ITERATE_KEY}
Locs == UNION {{<<t, k>> : k \in KeysOf(t)} : t \in Targets}
\* The computed's own Dependency Set (ComputedRefImpl.dep).
CompDep == <<"c", "value">>
DepIds == Locs \cup {CompDep}
\* The values programs store, and undefined (what a missing key or a hole
\* reads as), coded as a number no program stores.
Values == {1, 2}
Absent == 0 - 1
InitStore ==
  [obj |-> [k \in {"a", "b"} |-> Absent],
   arr |-> [items |-> [k \in IndexKeys |-> Absent], length |-> 0],
   ref |-> 1]
\* The locations effect bodies and top-level code read and write.
BodyLocs == {<<"obj", "a">>, <<"obj", "b">>}

VARIABLES
  active,           \* ReactiveEffect.active, per effect
  deps,             \* ReactiveEffect.deps: sequence of Dependency Sets (ids)
  parent,           \* ReactiveEffect.parent
  deferStop,        \* ReactiveEffect.deferStop
  allowRecurse,     \* ReactiveEffect.allowRecurse (an option, fixed at creation)
  cacheable,        \* ComputedRefImpl._cacheable (fixed at construction)
  scheduler,        \* ReactiveEffect.scheduler: "none", "computed", or "job" (a
                    \* scheduler given by the caller)
  depSets,          \* the Dependency Sets made so far: id -> [set (members in
                    \* insertion order), w, n]
  targetMap,        \* targetMap: per target, the keys of its depsMap in creation order
  activeEffect,
  shouldTrack,
  trackStack,
  effectTrackDepth,
  trackOpBit,
  dirty,            \* ComputedRefImpl._dirty
  hasValue,         \* whether ComputedRefImpl._value has been assigned
  stack,            \* the call stack, innermost frame last
  exc,              \* an error is propagating up the call stack
  onStopCalls,      \* history: invocations of each effect's onStop hook
  store,            \* the values held by the reactive object, the array and the ref
  script,           \* scripted scenario: the body of each effect, <<>> = any program
  count             \* history counters of the scripted scenarios

vars == <<active, deps, parent, deferStop, allowRecurse, cacheable, scheduler, depSets,
          targetMap, activeEffect, shouldTrack, trackStack, effectTrackDepth,
          trackOpBit, dirty, hasValue, stack, exc, onStopCalls, store, script, count>>

effVars == <<active, deps, parent, deferStop>>
optVars == <<allowRecurse, cacheable, scheduler, script>>
ctxVars == <<activeEffect, shouldTrack, effectTrackDepth, trackOpBit>>
compVars == <<dirty, hasValue>>

\* ------------------------------------------------------------- bit helpers
RECURSIVE Pow2(_)
Pow2(k) == IF k = 0 THEN 1 ELSE 2 * Pow2(k - 1)
\* 1 << d on 32-bit integers.
Shl1(d) == LET s == d % 32 IN IF s = 31 THEN 0 - Pow2(31) ELSE Pow2(s)
\* (m & bit) > 0 for a one-bit mask.
HasBit(m, bit) == bit > 0 /\ (m \div bit) % 2 = 1
OrBit(m, bit) == IF HasBit(m, bit) THEN m ELSE m + bit
ClearBit(m, bit) == IF HasBit(m, bit) THEN m - bit ELSE m

\* ------------------------------------------------------------- seq helpers
Range(s) == {s[i] : i \in 1..Len(s)}
RECURSIVE Without(_, _)
Without(s, x) ==
  IF s = <<>> THEN <<>>
  ELSE IF Head(s) = x THEN Without(Tail(s), x)
  ELSE <<Head(s)>> \o Without(Tail(s), x)
\* new Set(seq): first occurrences, in order.
DedupNothing(s) == s
RECURSIVE Dedup(_)
Dedup(s) ==
  IF s = <<>> THEN <<>>
  ELSE <<Head(s)>> \o Without(Dedup(Tail(s)), Head(s))
Top == stack[Len(stack)]
Pop == SubSeq(stack, 1, Len(stack) - 1)

\* ------------------------------------------------------------------- dep.ts
createDep == [set |-> <<>>, w |-> 0, n |-> 0]
wasTracked(dep, bit) == HasBit(dep.w, bit)
newTracked(dep, bit) == HasBit(dep.n, bit)

\* finalizeDepMarkers(effect): drops the sets that were tracked before and not
\* in this run, and clears this depth's marker bits of every set in effect.deps.
\* Returns the new [deps, depSets] of the effect.
RECURSIVE FinalizeFrom(_, _, _, _, _)
FinalizeFrom(e, ds, i, kept, bit) ==
  IF i > Len(deps[e]) THEN [deps |-> kept, depSets |-> ds]
  ELSE LET d == deps[e][i]
           dep == ds[d]
           drop == wasTracked(dep, bit) /\ ~newTracked(dep, bit)
           members == IF drop THEN Without(dep.set, e) ELSE dep.set
           cleared == [dep EXCEPT !.set = members,
                                  !.w = ClearBit(dep.w, bit),
                                  !.n = ClearBit(dep.n, bit)]
       IN FinalizeFrom(e, [ds EXCEPT ![d] = cleared], i + 1,
                       IF drop THEN kept ELSE Append(kept, d), bit)
finalizeDepMarkersKeepBits(e, ds, bit) == [deps |-> deps[e], depSets |-> ds]
finalizeDepMarkers(e, ds, bit) == FinalizeFrom(e, ds, 1, <<>>, bit)

\* ---------------------------------------------------------------- effect.ts
\* cleanupEffect(effect): deps[i].delete(effect) for every i; the caller sets
\* deps.length = 0.
RECURSIVE DeleteFrom(_, _, _)
DeleteFrom(ds, ids, e) ==
  IF ids = <<>> THEN ds
  ELSE DeleteFrom([ds EXCEPT ![Head(ids)].set = Without(@, e)], Tail(ids), e)
cleanupEffectNothing(ds, ids, e) == ds
cleanupEffect(ds, ids, e) == DeleteFrom(ds, ids, e)

\* The chain activeEffect -> parent -> parent ... walked by run().
RECURSIVE ChainFrom(_, _)
ChainFrom(e, fuel) ==
  IF e = None \/ fuel = 0 THEN <<>>
  ELSE <<e>> \o ChainFrom(parent[e], fuel - 1)
Chain == ChainFrom(activeEffect, Cardinality(AllEffects) + 1)
InChainNever(e) == FALSE
InChain(e) == e \in Range(Chain)

\* ------------------------------------------------------------- call sites
\* A frame of the call stack.  kind "run": an active effect between the try
\* and the finally of run(); "fn": the body of an inactive effect, called by
\* run() directly; "trig": the loop of triggerEffects; "get": the getter of
\* ComputedRefImpl.value waiting for effect.run().  reads, entryActive and
\* entryDepth are history: what the run has read, and the context it entered;
\* so is owed: the effects that were subscribed to the clean computed when the
\* trigger of this loop was issued and have not executed since.
Frame(kind, e) ==
  [kind |-> kind, eff |-> e, pc |-> 1, lastShouldTrack |-> TRUE,
   effects |-> <<>>, i |-> 1, reads |-> {}, entryActive |-> None, entryDepth |-> 0,
   owed |-> {}]
IsBody(f) == f.kind \in {"run", "fn"}
Idle == stack = <<>>
Scripted(e) == script[e] # <<>>
Counting == \E e \in AllEffects : Scripted(e)
\* Whether the code at the current call site (top-level code, or the body on
\* top of the stack) can make the call op next.
CanCall(op) ==
  /\ ~exc
  /\ \/ Idle
     \/ /\ ~Idle
        /\ IsBody(Top)
        /\ IF Scripted(Top.eff)
           THEN Top.pc <= Len(script[Top.eff]) /\ script[Top.eff][Top.pc] = op
           ELSE Top.eff # CompEffect \/ op.op = "track"
\* The stack once the call has been made: a scripted body moves on.
Called ==
  IF ~Idle /\ Scripted(Top.eff) THEN [stack EXCEPT ![Len(stack)].pc = @ + 1] ELSE stack
\* Scripted scenarios have finite bodies and are followed deeper.
StackCap == IF Counting THEN MaxScriptDepth ELSE MaxDepth
CanPush(n) == Len(stack) + n <= StackCap
\* The innermost active run on the stack (0 if none): the run whose call tree
\* the current call site belongs to.
InnerRun ==
  LET I == {i \in 1..Len(stack) : stack[i].kind = "run"}
  IN IF I = {} THEN 0 ELSE CHOOSE i \in I : \A j \in I : j <= i
InRun(e) == \E i \in 1..Len(stack) : stack[i].kind = "run" /\ stack[i].eff = e
Bump(n, cap) == IF n < cap THEN n + 1 ELSE cap

\* ----------------------------------------------------- ReactiveEffect.stop
\* stop() on effect e while ae is the active effect, as a function of the
\* state it reads and writes.
EffState == [active |-> active, deps |-> deps, depSets |-> depSets,
             deferStop |-> deferStop, onStopCalls |-> onStopCalls]
StopOpNoDefer(e, ae, st) ==
  IF st.active[e]
  THEN [st EXCEPT !.depSets = cleanupEffect(st.depSets, st.deps[e], e),
                  !.deps[e] = <<>>,
                  !.onStopCalls[e] = Bump(@, 2),
                  !.active[e] = FALSE]
  ELSE st
StopOpHookAlways(e, ae, st) ==
  IF ae = e THEN [st EXCEPT !.deferStop[e] = TRUE]
  ELSE [st EXCEPT !.depSets = cleanupEffect(st.depSets, st.deps[e], e),
                  !.deps[e] = <<>>,
                  !.onStopCalls[e] = Bump(@, 2),
                  !.active[e] = FALSE]
StopOp(e, ae, st) ==
  IF ae = e THEN [st EXCEPT !.deferStop[e] = TRUE]
  ELSE IF st.active[e]
  THEN [st EXCEPT !.depSets = cleanupEffect(st.depSets, st.deps[e], e),
                  !.deps[e] = <<>>,
                  !.onStopCalls[e] = Bump(@, 2),
                  !.active[e] = FALSE]
  ELSE st

\* ------------------------------------------------------ ReactiveEffect.run
\* Whether run() of e gets to execute the body.
RunsBody(e) == ~active[e] \/ ~InChain(e)
\* History: one more execution of the body of e; the getter of the computed
\* has seen every trigger so far.
RunCount(e) ==
  IF Counting
  THEN [count EXCEPT !.runs[e] = Bump(@, MaxTriggers + 2),
                     !.stale = IF e = CompEffect THEN FALSE ELSE @]
  ELSE count
\* run() of e in a state whose effect deps and Dependency Sets are deps0 and
\* ds0: what it leaves behind when it starts the body or returns at once,
\* and the frame (if any) in which the body then executes.
RunState(e, deps0, ds0) ==
  IF ~active[e]
  THEN [frames |-> <<Frame("fn", e)>>, parent |-> parent,
        activeEffect |-> activeEffect, shouldTrack |-> shouldTrack,
        effectTrackDepth |-> effectTrackDepth, trackOpBit |-> trackOpBit,
        deps |-> deps0, depSets |-> ds0]
  ELSE IF InChain(e)
  THEN [frames |-> <<>>, parent |-> parent,
        activeEffect |-> activeEffect, shouldTrack |-> shouldTrack,
        effectTrackDepth |-> effectTrackDepth, trackOpBit |-> trackOpBit,
        deps |-> deps0, depSets |-> ds0]
  ELSE [frames |-> <<[Frame("run", e) EXCEPT !.lastShouldTrack = shouldTrack,
                                             !.entryActive = activeEffect,
                                             !.entryDepth = effectTrackDepth]>>,
        parent |-> [parent EXCEPT ![e] = activeEffect],
        activeEffect |-> e, shouldTrack |-> TRUE,
        effectTrackDepth |-> effectTrackDepth + 1,
        trackOpBit |-> Shl1(effectTrackDepth + 1),
        deps |-> [deps0 EXCEPT ![e] = <<>>],
        depSets |-> cleanupEffect(ds0, deps0[e], e)]
\* History: the body of e executes, no loop on the stack owes it a run.
Paid(st, e) == [i \in 1..Len(st) |-> [st[i] EXCEPT !.owed = @ \ {e}]]
\* run() of e, called with the caller's frames base on the stack.
Run(e, base, deps0, ds0) ==
  LET r == RunState(e, deps0, ds0)
  IN /\ parent' = r.parent
     /\ activeEffect' = r.activeEffect
     /\ shouldTrack' = r.shouldTrack
     /\ effectTrackDepth' = r.effectTrackDepth
     /\ trackOpBit' = r.trackOpBit
     /\ deps' = r.deps
     /\ depSets' = r.depSets
     /\ stack' = (IF r.frames # <<>> THEN Paid(base, e) ELSE base) \o r.frames
     /\ count' = IF r.frames # <<>> THEN RunCount(e) ELSE count

\* The finally block of run(), for the run frame f of effect f.eff.
FinallyState(f) ==
  LET e == f.eff
      fin == IF effectTrackDepth <= maxMarkerBits
             THEN finalizeDepMarkers(e, depSets, trackOpBit)
             ELSE [deps |-> deps[e], depSets |-> depSets]
      st == [EffState EXCEPT !.deps[e] = fin.deps, !.depSets = fin.depSets]
  IN IF deferStop[e] THEN StopOp(e, parent[e], st) ELSE st
\* What the finally block puts back.
RestoredShouldTrackTrue(f) == TRUE
RestoredShouldTrack(f) == f.lastShouldTrack
RestoredActiveNone(f) == None
RestoredActive(f) == parent[f.eff]
\* --effectTrackDepth
ExitDepthKept == effectTrackDepth
ExitDepth == effectTrackDepth - 1
Finally(f) ==
  /\ effectTrackDepth' = ExitDepth
  /\ trackOpBit' = Shl1(ExitDepth)
  /\ activeEffect' = RestoredActive(f)
  /\ shouldTrack' = RestoredShouldTrack(f)
  /\ parent' = [parent EXCEPT ![f.eff] = None]
  /\ LET st == FinallyState(f)
     IN /\ active' = st.active
        /\ deps' = st.deps
        /\ depSets' = st.depSets
        /\ deferStop' = st.deferStop
        /\ onStopCalls' = st.onStopCalls

\* ------------------------------------------------------ track, trackEffects
\* Whether the Dependency Set d has been made (depsMap.get(key), ref.dep).
Made(d) == d \in DOMAIN depSets
\* trackEffects(dep) for the active effect: the set afterwards, and whether
\* the effect pushed it on its deps.
trackEffectsNoMarker(dep) ==
  [dep |-> [dep EXCEPT !.set = IF activeEffect \in Range(@) THEN @
                                ELSE Append(@, activeEffect)],
   pushed |-> TRUE]
trackEffects(dep) ==
  LET marker == effectTrackDepth <= maxMarkerBits
      fresh == marker /\ ~newTracked(dep, trackOpBit)
      dep1 == IF fresh THEN [dep EXCEPT !.n = OrBit(@, trackOpBit)] ELSE dep
      track == IF marker THEN fresh /\ ~wasTracked(dep1, trackOpBit)
               ELSE activeEffect \notin Range(dep.set)
  IN [dep |-> IF track
              THEN [dep1 EXCEPT !.set = IF activeEffect \in Range(@) THEN @
                                        ELSE Append(@, activeEffect)]
              ELSE dep1,
      pushed |-> track]
\* The guard of track() and of trackRefValue().
TracksAlways == TRUE
Tracks == shouldTrack /\ activeEffect # None
\* The stack after a read of d at the call site: the innermost run notes it.
NoteRead(d) ==
  IF shouldTrack /\ InnerRun > 0
  THEN [Called EXCEPT ![InnerRun].reads = @ \cup {d}]
  ELSE Called
\* The graph after track(target, key) / trackRefValue(ref) for set d: the set
\* is made on the first tracked read, then handed to trackEffects.
TrackDep(d) ==
  IF Tracks
  THEN LET r == trackEffects(IF Made(d) THEN depSets[d] ELSE createDep)
       IN [depSets |-> [x \in DOMAIN depSets \cup {d} |->
                          IF x = d THEN r.dep ELSE depSets[x]],
           targetMap |-> IF Made(d) \/ d[1] \notin Targets THEN targetMap
                         ELSE [targetMap EXCEPT ![d[1]] = Append(@, d[2])],
           deps |-> IF r.pushed THEN [deps EXCEPT ![activeEffect] = Append(@, d)]
                    ELSE deps]
  ELSE [depSets |-> depSets, targetMap |-> targetMap, deps |-> deps]
\* track(target, type, key), called by top-level code or by an effect body.
DoTrack(l) ==
  /\ CanCall([op |-> "track", loc |-> l])
  /\ LET g == TrackDep(l)
     IN depSets' = g.depSets /\ targetMap' = g.targetMap /\ deps' = g.deps
  /\ stack' = NoteRead(l)
  /\ UNCHANGED <<active, parent, deferStop, optVars, store, ctxVars, trackStack, compVars,
                 exc, onStopCalls, count>>

\* --------------------------------------------------------------- trigger
KeyNum(k) == CASE k = "0" -> 0 [] k = "1" -> 1 [] k = "2" -> 2 [] OTHER -> 0 - 1
\* key >= newValue: false for a key that is no number (NaN).
KeyGE(k, n) == isIntegerKey(k) /\ KeyNum(k) >= n
RECURSIVE SelectKeys(_, _, _)
SelectKeys(t, keys, n) ==
  IF keys = <<>> THEN <<>>
  ELSE (IF Head(keys) = "length" \/ KeyGE(Head(keys), n) THEN <<(<<t, Head(keys)>>)>> ELSE <<>>)
       \o SelectKeys(t, Tail(keys), n)
\* trigger() throws: depsMap.forEach compares a symbol key with the new
\* length (key >= newValue is a TypeError for a symbol).
TriggerThrows(t, type, k, newValue) ==
  /\ targetMap[t] # <<>>
  /\ type # "clear"
  /\ k = "length" /\ isArray(t)
  /\ \E key \in Range(targetMap[t]) : isSymbol(key)
\* The list deps built by trigger(): ids of Dependency Sets, an id whose set
\* was never made standing for undefined.
TriggerDeps(t, type, k, newValue) ==
  IF type = "clear" THEN [i \in 1..Len(targetMap[t]) |-> <<t, targetMap[t][i]>>]
  ELSE IF k = "length" /\ isArray(t) THEN SelectKeys(t, targetMap[t], newValue)
  ELSE (IF k # None THEN <<(<<t, k>>)>> ELSE <<>>)
       \o (CASE type = "add" ->
                  IF ~isArray(t)
                  THEN <<(<<t, ITERATE_KEY>>)>>
                       \o (IF isMap(t) THEN <<(<<t, MAP_KEY_ITERATE_KEY>>)>> ELSE <<>>)
                  ELSE IF isIntegerKey(k) THEN <<(<<t, "length">>)>> ELSE <<>>
             [] type = "delete" ->
                  IF ~isArray(t)
                  THEN <<(<<t, ITERATE_KEY>>)>>
                       \o (IF isMap(t) THEN <<(<<t, MAP_KEY_ITERATE_KEY>>)>> ELSE <<>>)
                  ELSE <<>>
             [] type = "set" ->
                  IF isMap(t) THEN <<(<<t, ITERATE_KEY>>)>> ELSE <<>>
             [] OTHER -> <<>>)
RECURSIVE Members(_)
Members(ids) ==
  IF ids = <<>> THEN <<>>
  ELSE (IF Made(Head(ids)) THEN depSets[Head(ids)].set ELSE <<>>) \o Members(Tail(ids))
\* The effects the loop of triggerEffects goes through for this trigger: a
\* copy of the one set, or of the set made of the members of all of them.
TriggerSnapshotComputedFirst(t, type, k, newValue) ==
  LET all == IF targetMap[t] = <<>> THEN <<>>
             ELSE Dedup(Members(TriggerDeps(t, type, k, newValue)))
      IsComputed(e) == scheduler[e] = "computed"
      IsPlain(e) == scheduler[e] # "computed"
  IN SelectSeq(all, IsComputed) \o SelectSeq(all, IsPlain)
TriggerSnapshot(t, type, k, newValue) ==
  IF targetMap[t] = <<>> THEN <<>>
  ELSE LET ids == TriggerDeps(t, type, k, newValue)
       IN IF Len(ids) = 1
          THEN (IF Made(ids[1]) THEN depSets[ids[1]].set ELSE <<>>)
          ELSE Dedup(Members(ids))
\* The effects this trigger hands to triggerEffects, and so invokes when no
\* effect is running: none if it throws first.
Collects(t, type, k, newValue) ==
  IF TriggerThrows(t, type, k, newValue) THEN {}
  ELSE Range(TriggerSnapshot(t, type, k, newValue))
\* triggerEffects(dep) called with base on the stack: the loop over the copy.
TriggerEffects(snapshot, base) ==
  IF snapshot = <<>> THEN base
  ELSE Append(base, [Frame("trig", None) EXCEPT !.effects = snapshot])
\* The triggers top-level code and effect bodies issue: <<target, type, key, newValue>>.
TriggerCalls == {<<l[1], "set", l[2], 0>> : l \in BodyLocs}
\* The locations the scripted body of e reads.
ReadLocs(e) ==
  {script[e][i].loc : i \in {j \in 1..Len(script[e]) : script[e][j].op = "track"}}
\* A trigger of l at the current call site is external to e: e has executed
\* its body before, reads l, and the call site is in no run of e.
External(e, l) == l \in ReadLocs(e) /\ count.runs[e] > 0 /\ ~InRun(e)
\* History: the external triggers of each effect, and whether a location the
\* getter of the computed reads was triggered since the getter last started.
TriggerCount(l) ==
  IF Counting
  THEN [count EXCEPT !.ext = [e \in AllEffects |->
                                IF External(e, l) THEN Bump(@[e], MaxTriggers) ELSE @[e]],
                     !.stale = @ \/ (l \in ReadLocs(CompEffect)
                                     /\ count.runs[CompEffect] > 0)]
  ELSE count
\* History: the effects subscribed to the computed when a location its getter
\* reads is triggered while the computed is clean.
Owed(l) ==
  IF Counting /\ l \in ReadLocs(CompEffect) /\ count.runs[CompEffect] > 0 /\ ~dirty
     /\ CompDep \in DOMAIN depSets
  THEN Range(depSets[CompDep].set) ELSE {}
\* trigger(target, type, key, newValue) up to the start of the loop.
Trigger(c) ==
  /\ IF TriggerThrows(c[1], c[2], c[3], c[4])
     THEN /\ exc' = TRUE
          /\ stack' = Called
     ELSE LET snapshot == TriggerSnapshot(c[1], c[2], c[3], c[4])
              loop == TriggerEffects(snapshot, Called)
          IN /\ snapshot # <<>> => CanPush(1)
             /\ stack' = IF snapshot = <<>> THEN loop
                         ELSE [loop EXCEPT ![Len(loop)].owed = Owed(<<c[1], c[3]>>)]
             /\ UNCHANGED exc
  /\ count' = TriggerCount(<<c[1], c[3]>>)
  /\ Counting => \A e \in AllEffects : External(e, <<c[1], c[3]>>) => count.ext[e] < MaxTriggers
  /\ UNCHANGED <<effVars, optVars, depSets, targetMap, ctxVars, trackStack, compVars,
                 onStopCalls>>
\* A trigger issued by top-level code or by an effect body.
DoTrigger(c) ==
  /\ CanCall([op |-> "trigger", loc |-> <<c[1], c[3]>>])
  /\ Trigger(c)
  /\ UNCHANGED store

\* ------------------------------------------- createSetter and RefImpl.value
\* hasChanged(value, oldValue) is !Object.is(value, oldValue); the values of
\* the model are distinct numbers and undefined.
hasChanged(value, oldValue) == value # oldValue
\* hasOwn(target, key): an index of the array below length may be a hole.
hasOwn(t, k) ==
  IF isArray(t) THEN k = "length" \/ (k \in IndexKeys /\ store.arr.items[k] # Absent)
  ELSE store.obj[k] # Absent
\* target[key] before the write.
OldValue(t, k) ==
  IF isArray(t) THEN (IF k = "length" THEN store.arr.length ELSE store.arr.items[k])
  ELSE store.obj[k]
hadKey(t, k) ==
  IF isArray(t) /\ isIntegerKey(k) THEN KeyNum(k) < store.arr.length ELSE hasOwn(t, k)
\* The trigger the set trap issues for target[key] = value, written through
\* the proxy of target itself (target === toRaw(receiver)).
SetterTrigger(t, k, value) ==
  IF ~hadKey(t, k) THEN "add"
  ELSE IF hasChanged(value, OldValue(t, k)) THEN "set"
  ELSE "none"
\* Reflect.set(target, key, value, receiver): writing an index at or past the
\* length grows the array, writing the length cuts it.
ReflectSet(t, k, value) ==
  IF ~isArray(t) THEN [store EXCEPT !.obj[k] = value]
  ELSE IF k = "length"
  THEN [store EXCEPT !.arr = [items |-> [i \in IndexKeys |->
                                           IF KeyNum(i) < value THEN @.items[i] ELSE Absent],
                              length |-> value]]
  ELSE [store EXCEPT !.arr = [items |-> [@.items EXCEPT ![k] = value],
                              length |-> IF KeyNum(k) < @.length THEN @.length
                                         ELSE KeyNum(k) + 1]]
\* The set trap of a reactive object or array whose values are no refs,
\* called by top-level code.
DoSet(t, k, value) ==
  /\ Idle /\ ~exc
  /\ store' = ReflectSet(t, k, value)
  /\ LET type == SetterTrigger(t, k, value)
     IN IF type = "none"
        THEN UNCHANGED <<effVars, optVars, depSets, targetMap, ctxVars, trackStack,
                         compVars, onStopCalls, stack, exc, count>>
        ELSE Trigger(<<t, type, k, value>>)
\* The Dependency Set of the ref (RefImpl.dep).
RefDep == <<"ref", "value">>
\* RefImpl: set value(newVal), then triggerRefValue(this, newVal), called by
\* top-level code.
RefTrigger(newVal) == IF hasChanged(newVal, store.ref) THEN "set" ELSE "none"
DoRefSet(newVal) ==
  /\ Idle /\ ~exc
  /\ IF RefTrigger(newVal) = "set"
     THEN LET snapshot == IF Made(RefDep) THEN depSets[RefDep].set ELSE <<>>
          IN /\ store' = [store EXCEPT !.ref = newVal]
             /\ snapshot # <<>> => CanPush(1)
             /\ stack' = TriggerEffects(snapshot, Called)
             /\ count' = TriggerCount(RefDep)
     ELSE UNCHANGED <<store, stack, count>>
  /\ UNCHANGED <<effVars, optVars, depSets, targetMap, ctxVars, trackStack, compVars,
                 exc, onStopCalls>>

\* ------------------------------------------------ triggerEffect, the loop
\* The scheduler of the computed's effect (ComputedRefImpl constructor).
ComputedSchedulerSilent(base) ==
  /\ dirty' = TRUE
  /\ stack' = base
ComputedSchedulerAlways(base) ==
  /\ dirty' = TRUE
  /\ stack' = IF Made(CompDep)
              THEN TriggerEffects(depSets[CompDep].set, base) ELSE base
ComputedScheduler(base) ==
  IF ~dirty
  THEN /\ dirty' = TRUE
       \* triggerRefValue(this)
       /\ stack' = IF Made(CompDep)
                   THEN TriggerEffects(depSets[CompDep].set, base) ELSE base
  ELSE /\ UNCHANGED dirty
       /\ stack' = base
\* History: one more call of the scheduler the caller gave to e.
SchedulerCount(e) == [count EXCEPT !.sched[e] = Bump(@, MaxTriggers + 2)]
\* The guard of triggerEffect.
InvokesNever(e) == FALSE
InvokesAlways(e) == TRUE
Invokes(e) == e # activeEffect \/ allowRecurse[e]
\* One turn of the loop of triggerEffects: triggerEffect(effects[i]).
Dispatch ==
  /\ ~exc /\ ~Idle
  /\ Top.kind = "trig" /\ Top.i <= Len(Top.effects)
  /\ LET e == Top.effects[Top.i]
         base == [stack EXCEPT ![Len(stack)].i = @ + 1]
     IN IF Invokes(e)
        THEN IF scheduler[e] = "computed"
             THEN /\ CanPush(1)
                  /\ ComputedScheduler(base)
                  /\ UNCHANGED <<deps, parent, depSets, ctxVars, hasValue, count>>
             ELSE IF scheduler[e] = "job"
             THEN /\ stack' = base
                  /\ count' = SchedulerCount(e)
                  /\ UNCHANGED <<deps, parent, depSets, ctxVars, compVars>>
             ELSE /\ RunsBody(e) => CanPush(1)
                  /\ Run(e, base, deps, depSets)
                  /\ UNCHANGED compVars
        ELSE /\ stack' = base
             /\ UNCHANGED <<deps, parent, depSets, ctxVars, compVars, count>>
  /\ UNCHANGED <<active, deferStop, optVars, store, targetMap, trackStack, exc, onStopCalls>>
\* The loop of triggerEffects has gone through its copy: it returns.
DispatchDone ==
  /\ ~exc /\ ~Idle
  /\ Top.kind = "trig" /\ Top.i > Len(Top.effects)
  /\ stack' = Pop
  /\ UNCHANGED <<effVars, optVars, store, depSets, targetMap, ctxVars, trackStack, compVars,
                 exc, onStopCalls, count>>

\* ------------------------------------------------- calls of run and stop
\* effect.run(), called by top-level code (the runner, or effect() on
\* creation) or by an effect body.
DoRun(e) ==
  /\ CanCall([op |-> "run", eff |-> e])
  /\ RunsBody(e) => CanPush(1)
  /\ Run(e, Called, deps, depSets)
  /\ UNCHANGED <<active, deferStop, optVars, store, targetMap, trackStack, compVars, exc,
                 onStopCalls>>
\* effect(fn): top-level code creates the effect e, which runs once.
DoEffect(e) ==
  /\ ~exc /\ Idle
  /\ Counting /\ count.runs[e] = 0
  /\ CanPush(1)
  /\ Run(e, stack, deps, depSets)
  /\ UNCHANGED <<active, deferStop, optVars, store, targetMap, trackStack, compVars, exc,
                 onStopCalls>>
\* effect.stop(), called by top-level code or by an effect body.
DoStop(e) ==
  /\ CanCall([op |-> "stop", eff |-> e])
  /\ LET st == StopOp(e, activeEffect, EffState)
     IN /\ active' = st.active
        /\ deps' = st.deps
        /\ depSets' = st.depSets
        /\ deferStop' = st.deferStop
        /\ onStopCalls' = st.onStopCalls
  /\ stack' = Called
  /\ UNCHANGED <<parent, optVars, store, targetMap, ctxVars, trackStack, compVars, exc, count>>

\* ------------------------------------------------- ComputedRefImpl.value
\* get value(): trackRefValue(self), then effect.run() if dirty or not
\* cacheable; the getter waits in a "get" frame for run() to return.
RecomputesWhenDirty == dirty
Recomputes == dirty \/ ~cacheable
DoValue ==
  /\ CanCall([op |-> "value"])
  /\ LET g == TrackDep(CompDep)
     IN /\ targetMap' = g.targetMap
        /\ IF Recomputes
           THEN /\ CanPush(2)
                /\ dirty' = FALSE
                /\ Run(CompEffect, Append(NoteRead(CompDep), Frame("get", CompEffect)),
                       g.deps, g.depSets)
           ELSE /\ deps' = g.deps
                /\ depSets' = g.depSets
                /\ stack' = NoteRead(CompDep)
                /\ UNCHANGED <<dirty, parent, ctxVars, count>>
  /\ UNCHANGED <<active, deferStop, optVars, store, trackStack, hasValue, exc, onStopCalls>>
\* effect.run() has returned to get value(): self._value is assigned.
GetReturn ==
  /\ ~exc /\ ~Idle
  /\ Top.kind = "get"
  /\ hasValue' = TRUE
  /\ stack' = Pop
  /\ UNCHANGED <<effVars, optVars, store, depSets, targetMap, ctxVars, trackStack, dirty,
                 exc, onStopCalls, count>>

\* ------------------------------------------------------ leaving a body
\* The body on top of the stack returns; run() goes through its finally.
Return ==
  /\ ~exc /\ ~Idle /\ IsBody(Top)
  /\ Scripted(Top.eff) => Top.pc > Len(script[Top.eff])
  /\ IF Top.kind = "run" THEN Finally(Top)
     ELSE UNCHANGED <<effVars, depSets, ctxVars, onStopCalls>>
  /\ stack' = Pop
  /\ UNCHANGED <<optVars, store, targetMap, trackStack, compVars, exc, count>>
\* The body on top of the stack throws.
Throw ==
  /\ ~exc /\ ~Idle /\ IsBody(Top) /\ ~Scripted(Top.eff)
  /\ exc' = TRUE
  /\ UNCHANGED <<effVars, optVars, store, depSets, targetMap, ctxVars, trackStack, compVars,
                 stack, onStopCalls, count>>
\* The error leaves the innermost call: a run() goes through its finally, the
\* loop of triggerEffects and the getter of a computed are just left.
Unwind ==
  /\ exc /\ ~Idle
  /\ IF Top.kind = "run" THEN Finally(Top)
     ELSE UNCHANGED <<effVars, depSets, ctxVars, onStopCalls>>
  /\ stack' = Pop
  /\ UNCHANGED <<optVars, store, targetMap, trackStack, compVars, exc, count>>
\* The caller (top-level code, or a body that made the call in a try) gets
\* the error.
Catch ==
  /\ exc
  /\ IF Idle THEN TRUE ELSE IsBody(Top)
  /\ exc' = FALSE
  /\ UNCHANGED <<effVars, optVars, store, depSets, targetMap, ctxVars, trackStack, compVars,
                 stack, onStopCalls, count>>

\* -------------------------------- pauseTracking, enableTracking, resetTracking
\* Scripted scenarios have finite bodies and may nest deeper.
TrackCap == IF Counting THEN MaxScriptDepth ELSE MaxTrackStack
PauseTracking ==
  /\ CanCall([op |-> "pause"])
  /\ Len(trackStack) < TrackCap
  /\ trackStack' = Append(trackStack, shouldTrack)
  /\ shouldTrack' = FALSE
  /\ stack' = Called
  /\ UNCHANGED <<effVars, optVars, store, depSets, targetMap, activeEffect, effectTrackDepth,
                 trackOpBit, compVars, exc, onStopCalls, count>>
EnableTracking ==
  /\ CanCall([op |-> "enable"])
  /\ Len(trackStack) < TrackCap
  /\ trackStack' = Append(trackStack, shouldTrack)
  /\ shouldTrack' = TRUE
  /\ stack' = Called
  /\ UNCHANGED <<effVars, optVars, store, depSets, targetMap, activeEffect, effectTrackDepth,
                 trackOpBit, compVars, exc, onStopCalls, count>>
ResetTrackingNoRestore ==
  /\ CanCall([op |-> "reset"])
  /\ trackStack' = IF trackStack = <<>> THEN <<>>
                   ELSE SubSeq(trackStack, 1, Len(trackStack) - 1)
  /\ shouldTrack' = TRUE
  /\ stack' = Called
  /\ UNCHANGED <<effVars, optVars, store, depSets, targetMap, activeEffect, effectTrackDepth,
                 trackOpBit, compVars, exc, onStopCalls, count>>
ResetTracking ==
  /\ CanCall([op |-> "reset"])
  /\ trackStack' = IF trackStack = <<>> THEN <<>>
                   ELSE SubSeq(trackStack, 1, Len(trackStack) - 1)
  /\ shouldTrack' = IF trackStack = <<>> THEN TRUE ELSE trackStack[Len(trackStack)]
  /\ stack' = Called
  /\ UNCHANGED <<effVars, optVars, store, depSets, targetMap, activeEffect, effectTrackDepth,
                 trackOpBit, compVars, exc, onStopCalls, count>>

\* ------------------------------------------------------------------- Spec
NoScript == [e \in AllEffects |-> <<>>]
\* cache: whether the computed caches (ComputedRefImpl: this.effect.active =
\* this._cacheable = !isSSR).
\* sched: the scheduler option of each effect.
InitWith(cache, sched) ==
  /\ active = [e \in AllEffects |-> e # CompEffect \/ cache]
  /\ deps = [e \in AllEffects |-> <<>>]
  /\ parent = [e \in AllEffects |-> None]
  /\ deferStop = [e \in AllEffects |-> FALSE]
  /\ scheduler = sched
  /\ cacheable = cache
  /\ depSets = [d \in {} |-> createDep]
  /\ targetMap = [t \in Targets |-> <<>>]
  /\ activeEffect = None
  /\ shouldTrack = TRUE
  /\ trackStack = <<>>
  /\ effectTrackDepth = 0
  /\ trackOpBit = 1
  /\ dirty = TRUE
  /\ hasValue = FALSE
  /\ stack = <<>>
  /\ exc = FALSE
  /\ onStopCalls = [e \in AllEffects |-> 0]
  /\ store = InitStore
  /\ count = [runs |-> [e \in AllEffects |-> 0], ext |-> [e \in AllEffects |-> 0],
              stale |-> FALSE, sched |-> [e \in AllEffects |-> 0]]
NoSchedulers == [e \in AllEffects |-> IF e = CompEffect THEN "computed" ELSE "none"]
InitState(cache) == InitWith(cache, NoSchedulers)
InitCommon == InitState(TRUE)
\* The effect engine: effects created lazily, bodies that are arbitrary
\* programs of reads, triggers, runs and stops.
Init ==
  /\ InitCommon
  /\ allowRecurse \in {[e \in AllEffects |-> e = "e1" /\ b] : b \in BOOLEAN}
  /\ script = NoScript
Next ==
  \/ \E l \in BodyLocs : DoTrack(l)
  \/ \E c \in TriggerCalls : DoTrigger(c)
  \/ \E e \in Effects : DoRun(e)
  \/ \E e \in Effects : DoStop(e)
  \/ Dispatch
  \/ DispatchDone
  \/ Return
Spec == Init /\ [][Next]_vars

\* The exit paths of run(): bodies that also throw and pause tracking, errors
\* that go up through nested runs and dispatch loops.
InitExit ==
  /\ InitCommon
  /\ allowRecurse = [e \in AllEffects |-> FALSE]
  /\ script = NoScript
NextExit ==
  \/ DoTrack(<<"obj", "a">>)
  \/ DoTrigger(<<"obj", "set", "a", 0>>)
  \/ \E e \in Effects : DoRun(e)
  \/ \E e \in Effects : DoStop(e)
  \/ Dispatch
  \/ DispatchDone
  \/ Return
  \/ Throw
  \/ Unwind
  \/ Catch
  \/ PauseTracking
  \/ ResetTracking
SpecExit == InitExit /\ [][NextExit]_vars

\* Scripted bodies: the calls a body makes, in order.
ReadOf(l) == [op |-> "track", loc |-> l]
WriteOf(l) == [op |-> "trigger", loc |-> l]
ValueOf == [op |-> "value"]
LocA == <<"obj", "a">>
LocB == <<"obj", "b">>

\* Self-writing effects: e1 reads and then writes obj.a, next to an effect e2
\* that reads or writes the same or another location; top-level code creates
\* the effects and writes.
SelfWriteBodies == {<<ReadOf(LocA), WriteOf(LocA)>>, <<ReadOf(LocA), WriteOf(LocA), ReadOf(LocB)>>, <<ReadOf(LocB), ReadOf(LocA), WriteOf(LocA)>>}
OtherBodies == {<<ReadOf(LocA)>>, <<ReadOf(LocA), WriteOf(LocA)>>, <<WriteOf(LocA)>>, <<ReadOf(LocB), WriteOf(LocB)>>}
InitSelfWrite ==
  /\ InitCommon
  /\ allowRecurse \in {[e \in AllEffects |-> e = "e2" /\ b] : b \in BOOLEAN}
  /\ script \in {[e \in AllEffects |->
                    CASE e = "e1" -> s1 [] e = "e2" -> s2 [] OTHER -> <<>>] :
                  s1 \in SelfWriteBodies, s2 \in OtherBodies}
NextSelfWrite ==
  \/ \E e \in Effects : DoEffect(e)
  \/ \E l \in BodyLocs : DoTrack(l)
  \/ \E c \in TriggerCalls : DoTrigger(c)
  \/ Dispatch
  \/ DispatchDone
  \/ Return
SpecSelfWrite == InitSelfWrite /\ [][NextSelfWrite]_vars

\* The computed: a getter that reads one or two locations, effects that read
\* the computed's value, top-level code that reads the value and writes the
\* locations.
GetterBodies == {<<ReadOf(LocA)>>, <<ReadOf(LocA), ReadOf(LocB)>>}
ReaderBodies == {<<ValueOf>>, <<ReadOf(LocA), ValueOf>>, <<ValueOf, ReadOf(LocA)>>, <<ValueOf, ValueOf>>, <<ValueOf, WriteOf(LocA)>>}
InitComputed ==
  /\ InitCommon
  /\ allowRecurse = [e \in AllEffects |-> FALSE]
  /\ script \in {[e \in AllEffects |->
                    CASE e = "e1" -> s1 [] e = "e2" -> s2 [] OTHER -> g] :
                  s1 \in ReaderBodies, s2 \in {<<ValueOf>>, <<ReadOf(LocB)>>}, g \in GetterBodies}
NextComputed ==
  \/ \E e \in Effects : DoEffect(e)
  \/ DoValue
  \/ GetReturn
  \/ \E l \in BodyLocs : DoTrack(l)
  \/ \E c \in TriggerCalls : DoTrigger(c)
  \/ Dispatch
  \/ DispatchDone
  \/ Return
SpecComputed == InitComputed /\ [][NextComputed]_vars

\* The computed created with caching disabled.
InitNoCache ==
  /\ InitState(FALSE)
  /\ allowRecurse = [e \in AllEffects |-> FALSE]
  /\ script \in {[e \in AllEffects |->
                    CASE e = "e1" -> s1 [] e = "e2" -> s2 [] OTHER -> g] :
                  s1 \in ReaderBodies, s2 \in {<<ValueOf>>, <<ReadOf(LocB)>>}, g \in GetterBodies}
NextNoCache ==
  \/ \E e \in Effects : DoEffect(e)
  \/ DoValue
  \/ GetReturn
  \/ \E l \in BodyLocs : DoTrack(l)
  \/ \E c \in TriggerCalls : DoTrigger(c)
  \/ Dispatch
  \/ DispatchDone
  \/ Return
SpecNoCache == InitNoCache /\ [][NextNoCache]_vars

\* The trigger kinds: effects that read keys, index keys, length and the
\* iteration keys of a plain object, an array and a map; top-level code that
\* issues every kind of trigger on them.
KeyReaderBodies ==
  {<<ReadOf(<<"obj", "a">>), ReadOf(<<"obj", ITERATE_KEY>>)>>,
   <<ReadOf(<<"obj", ITERATE_KEY>>)>>,
   <<ReadOf(<<"arr", "0">>), ReadOf(<<"arr", "2">>)>>,
   <<ReadOf(<<"arr", "length">>), ReadOf(<<"arr", "1">>)>>,
   <<ReadOf(<<"arr", "2">>)>>,
   <<ReadOf(<<"arr", ITERATE_KEY>>), ReadOf(<<"arr", "b">>)>>,
   <<ReadOf(<<"map", "a">>), ReadOf(<<"map", ITERATE_KEY>>)>>,
   <<ReadOf(<<"map", MAP_KEY_ITERATE_KEY>>)>>}
Lengths == 0..3
KeyTriggerCalls ==
  {<<t, type, k, 0>> : t \in Targets, type \in {"set", "add", "delete"},
                       k \in {"a", "b", "0", "1", "2"}}
  \cup {<<"arr", "set", "length", n>> : n \in Lengths}
  \cup {<<t, "clear", None, 0>> : t \in Targets}
InitTrigger ==
  /\ InitCommon
  /\ allowRecurse = [e \in AllEffects |-> FALSE]
  /\ script \in {[e \in AllEffects |->
                    CASE e = "e1" -> s1 [] e = "e2" -> s2 [] OTHER -> <<>>] :
                  s1 \in KeyReaderBodies, s2 \in KeyReaderBodies}
NextTrigger ==
  \/ \E e \in Effects : DoEffect(e)
  \/ \E l \in Locs : DoTrack(l)
  \/ \E c \in KeyTriggerCalls : DoTrigger(c)
  \/ Dispatch
  \/ DispatchDone
  \/ Return
  \/ Catch
SpecTrigger == InitTrigger /\ [][NextTrigger]_vars

\* Schedulers: e1 has a scheduler given by the caller and writes the location
\* it reads; e2 has none; the computed has its own.
InitSched ==
  /\ InitWith(TRUE, [e \in AllEffects |->
                       CASE e = "e1" -> "job" [] e = CompEffect -> "computed"
                         [] OTHER -> "none"])
  /\ allowRecurse \in [AllEffects -> BOOLEAN]
  /\ allowRecurse[CompEffect] = FALSE
  /\ script \in {[e \in AllEffects |->
                    CASE e = "e1" -> <<ReadOf(LocA), WriteOf(LocA)>>
                      [] e = "e2" -> s2
                      [] OTHER -> <<ReadOf(LocA)>>] :
                  s2 \in {<<ReadOf(LocA)>>, <<ReadOf(LocA), WriteOf(LocA)>>,
                          <<ValueOf>>, <<ValueOf, WriteOf(LocA)>>}}
NextSched ==
  \/ \E e \in Effects : DoEffect(e)
  \/ DoValue
  \/ GetReturn
  \/ \E l \in BodyLocs : DoTrack(l)
  \/ \E c \in TriggerCalls : DoTrigger(c)
  \/ Dispatch
  \/ DispatchDone
  \/ Return
SpecSched == InitSched /\ [][NextSched]_vars

\* Length triggers: effects that read the length, index keys and a symbol key
\* of an array, and may write the length; top-level code that writes the
\* length and the index keys.
ArrayReaderBodies ==
  {<<ReadOf(<<"arr", "length">>)>>,
   <<ReadOf(<<"arr", "0">>), ReadOf(<<"arr", "2">>)>>,
   <<ReadOf(<<"arr", "1">>)>>,
   <<ReadOf(<<"arr", "2">>), ReadOf(<<"arr", "length">>)>>,
   <<ReadOf(<<"arr", SymbolKey>>)>>,
   <<ReadOf(<<"arr", "1">>), WriteOf(<<"arr", "length">>)>>}
LengthTriggerCalls ==
  {<<"arr", "set", "length", n>> : n \in Lengths}
  \cup {<<"arr", "set", k, 0>> : k \in IndexKeys}
InitLength ==
  /\ InitCommon
  /\ allowRecurse = [e \in AllEffects |-> FALSE]
  /\ script \in {[e \in AllEffects |->
                    CASE e = "e1" -> s1 [] e = "e2" -> s2 [] OTHER -> <<>>] :
                  s1 \in ArrayReaderBodies, s2 \in ArrayReaderBodies}
NextLength ==
  \/ \E e \in Effects : DoEffect(e)
  \/ \E l \in Locs : DoTrack(l)
  \/ \E c \in LengthTriggerCalls : DoTrigger(c)
  \/ Dispatch
  \/ DispatchDone
  \/ Return
  \/ Unwind
  \/ Catch
SpecLength == InitLength /\ [][NextLength]_vars

\* Writes through the set trap and the ref: effects that read the keys, the
\* index keys, the length and the ref; top-level code that stores values.
SetLocs == {<<"obj", "a">>, <<"arr", "0">>, <<"arr", "length">>, RefDep}
SetCalls ==
  {<<"obj", "a", v>> : v \in Values}
  \cup {<<"arr", k, v>> : k \in {"0", "1"}, v \in Values}
  \cup {<<"arr", "length", n>> : n \in Lengths}
InitSet ==
  /\ InitCommon
  /\ allowRecurse = [e \in AllEffects |-> FALSE]
  /\ script = [e \in AllEffects |->
                 CASE e = "e1" -> <<ReadOf(<<"obj", "a">>), ReadOf(<<"arr", "length">>)>>
                   [] e = "e2" -> <<ReadOf(<<"arr", "0">>), ReadOf(RefDep)>>
                   [] OTHER -> <<>>]
NextSet ==
  \/ \E e \in Effects : DoEffect(e)
  \/ \E l \in SetLocs : DoTrack(l)
  \/ \E c \in SetCalls : DoSet(c[1], c[2], c[3])
  \/ \E v \in Values : DoRefSet(v)
  \/ Dispatch
  \/ DispatchDone
  \/ Return
SpecSet == InitSet /\ [][NextSet]_vars

\* Tracking scopes: the body of e1 is any sequence of pauseTracking,
\* enableTracking and resetTracking calls, nested properly or not, and of runs
\* of e2, whose body is one resetTracking call; top-level code makes no such
\* call, so the body of e1 is entered with an empty trackStack.
TrackingOps ==
  {[op |-> "pause"], [op |-> "enable"], [op |-> "reset"], [op |-> "run", eff |-> "e2"]}
TrackingBodies == UNION {[1..n -> TrackingOps] : n \in 1..MaxProgram}
InitTracking ==
  /\ InitCommon
  /\ allowRecurse = [e \in AllEffects |-> FALSE]
  /\ script \in {[e \in AllEffects |->
                    CASE e = "e1" -> s [] e = "e2" -> <<[op |-> "reset"]>> [] OTHER -> <<>>] :
                  s \in TrackingBodies}
NextTracking ==
  \/ DoEffect("e1")
  \/ ~Idle /\ PauseTracking
  \/ ~Idle /\ EnableTracking
  \/ ~Idle /\ ResetTracking
  \/ ~Idle /\ DoRun("e2")
  \/ Return
SpecTracking == InitTracking /\ [][NextTracking]_vars

\* Invocation order: effects and a computed's getter that read a key and the
\* iteration key of the plain object in different orders; top-level code that
\* sets, adds and deletes the key.
LocIter == <<"obj", ITERATE_KEY>>
OrderBodies ==
  {<<ReadOf(LocA), ReadOf(LocIter)>>, <<ReadOf(LocIter), ReadOf(LocA)>>,
   <<ReadOf(LocIter)>>, <<ValueOf, ReadOf(LocIter)>>}
OrderCalls == {<<"obj", type, "a", 0>> : type \in {"set", "add", "delete"}}
InitOrder ==
  /\ InitCommon
  /\ allowRecurse = [e \in AllEffects |-> FALSE]
  /\ script \in {[e \in AllEffects |->
                    CASE e = "e1" -> s1 [] e = "e2" -> s2 [] OTHER -> g] :
                  s1 \in OrderBodies, s2 \in OrderBodies,
                  g \in {<<ReadOf(LocA)>>, <<ReadOf(LocIter), ReadOf(LocA)>>}}
NextOrder ==
  \/ \E e \in Effects : DoEffect(e)
  \/ DoValue
  \/ GetReturn
  \/ \E l \in {LocA, LocIter} : DoTrack(l)
  \/ \E c \in OrderCalls : DoTrigger(c)
  \/ Dispatch
  \/ DispatchDone
  \/ Return
SpecOrder == InitOrder /\ [][NextOrder]_vars

\* Termination: effects whose bodies read, write, run and stop effects; top-
\* level code creates them, stops them and writes.  The running program keeps
\* making its next call until the stack is empty again.
RunOf(e) == [op |-> "run", eff |-> e]
StopOf(e) == [op |-> "stop", eff |-> e]
TermBodies1 ==
  {<<ReadOf(LocA), WriteOf(LocA)>>, <<ReadOf(LocA), WriteOf(LocB)>>,
   <<ReadOf(LocA), RunOf("e1")>>, <<ReadOf(LocA), RunOf("e2"), WriteOf(LocA)>>}
TermBodies2 ==
  {<<ReadOf(LocB), WriteOf(LocA)>>, <<ReadOf(LocA), StopOf("e1"), WriteOf(LocA)>>,
   <<ReadOf(LocA), RunOf("e1")>>, <<ReadOf(LocB), StopOf("e2"), RunOf("e2")>>}
InitTerm ==
  /\ InitCommon
  /\ allowRecurse \in {[e \in AllEffects |-> e = "e1" /\ b] : b \in BOOLEAN}
  /\ script \in {[e \in AllEffects |->
                    CASE e = "e1" -> s1 [] e = "e2" -> s2 [] OTHER -> <<>>] :
                  s1 \in TermBodies1, s2 \in TermBodies2}
\* The calls of the running program.
StepTerm ==
  \/ \E l \in BodyLocs : ~Idle /\ DoTrack(l)
  \/ \E c \in TriggerCalls : ~Idle /\ DoTrigger(c)
  \/ \E e \in Effects : ~Idle /\ DoRun(e)
  \/ \E e \in Effects : ~Idle /\ DoStop(e)
  \/ Dispatch
  \/ DispatchDone
  \/ Return
NextTerm ==
  \/ \E e \in Effects : DoEffect(e)
  \/ \E c \in TriggerCalls : Idle /\ (\A e \in Effects : count.ext[e] = 0) /\ DoTrigger(c)
  \/ \E e \in Effects : Idle /\ count.runs[e] > 0 /\ DoStop(e)
  \/ StepTerm
SpecTerm == InitTerm /\ [][NextTerm]_vars /\ WF_vars(StepTerm)

\* A throwing getter: the getter of the computed and the body of an effect
\* are arbitrary programs that may throw; the getter reads obj.a, the effect
\* and top-level code read the computed's value and write obj.a.
InitThrow ==
  /\ InitCommon
  /\ allowRecurse = [e \in AllEffects |-> FALSE]
  /\ script = NoScript
NextThrow ==
  \/ DoValue
  \/ GetReturn
  \/ DoTrack(LocA)
  \/ DoTrigger(<<"obj", "set", "a", 0>>)
  \/ DoRun("e1")
  \/ Dispatch
  \/ DispatchDone
  \/ Return
  \/ Throw
  \/ Unwind
  \/ Catch
SpecThrow == InitThrow /\ [][NextThrow]_vars

\* ================================================================ claims
\* The Dependency Sets of ds that contain effect e.
Subs(ds, e) == {d \in DOMAIN ds : e \in Range(ds[d].set)}
\* The effects of the active runs on the stack, innermost first.
RECURSIVE RunEffsFrom(_)
RunEffsFrom(i) ==
  IF i = 0 THEN <<>>
  ELSE (IF stack[i].kind = "run" THEN <<stack[i].eff>> ELSE <<>>) \o RunEffsFrom(i - 1)
RunEffs == RunEffsFrom(Len(stack))
InnerEff == IF InnerRun = 0 THEN None ELSE stack[InnerRun].eff
\* stop() has been called on e: it was carried out or it is deferred.
StopCalled(e) == ~active[e] \/ deferStop[e]

\* C1: when a run of an active effect completes (and stop() was not called on
\* the effect during that run), the Dependency Sets that contain the effect are
\* exactly the locations read, with tracking enabled, in the call tree of that
\* run: whatever runs, triggers and stops of other effects came before.
C1_SubscribedToThisRunsReads ==
  [][(~Idle /\ Top.kind = "run" /\ stack' = Pop
      /\ active'[Top.eff] /\ ~deferStop'[Top.eff])
     => Subs(depSets', Top.eff) = Top.reads]_vars

C4_ReentrantRunIsNoOp ==
  /\ \A e \in Effects :
       (active[e] /\ e \in Range(Chain)) =>
         LET r == RunState(e, deps, depSets)
         IN /\ r.frames = <<>>
            /\ r.activeEffect = activeEffect
            /\ r.shouldTrack = shouldTrack
            /\ r.effectTrackDepth = effectTrackDepth
            /\ r.trackOpBit = trackOpBit
            /\ r.parent = parent
            /\ r.deps = deps
            /\ r.depSets = depSets
  /\ Len(Chain) = Cardinality(Range(Chain))
  /\ \A i, j \in 1..Len(stack) :
       (stack[i].kind = "run" /\ stack[j].kind = "run" /\ stack[i].eff = stack[j].eff)
         => i = j
\* A dispatch loop, inside nested runs, is about to call run() of the outer,
\* still active, effect.
C4_Witness ==
  /\ ~Idle /\ Top.kind = "trig" /\ Top.i <= Len(Top.effects)
  /\ Len(Chain) = 2
  /\ Top.effects[Top.i] = Chain[2]
  /\ active[Chain[2]]

\* C5: once stop() has been called on an effect and no run of it is in
\* progress, no Dependency Set contains it and its deps are empty.
C5_StoppedEffectIsUnsubscribed ==
  \A e \in Effects :
    (StopCalled(e) /\ ~InRun(e)) => (deps[e] = <<>> /\ Subs(depSets, e) = {})

\* C6: stop() twice in a row leaves the state stop() once leaves, and the
\* onStop hook has been invoked once for a stopped effect and never for an
\* active one, also when the stop was deferred to the end of a run.
C6_StopIdempotent ==
  \A e \in Effects :
    /\ StopOp(e, activeEffect, StopOp(e, activeEffect, EffState))
         = StopOp(e, activeEffect, EffState)
    /\ onStopCalls[e] = IF active[e] THEN 0 ELSE 1
\* A stop deferred to the end of the run has been carried out, and stop() was
\* called on another effect that was stopped before.
C6_Witness ==
  /\ Idle
  /\ \E e \in Effects : ~active[e] /\ deferStop[e] /\ onStopCalls[e] = 1
  /\ \A e \in Effects : ~active[e]

\* C7: while a run of an effect is in progress the effect is not marked
\* inactive and keeps every membership it got in that run, whoever called
\* stop() on it.
C7_StopDuringRunIsDeferred ==
  \A i \in 1..Len(stack) :
    stack[i].kind = "run" =>
      /\ active[stack[i].eff]
      /\ stack[i].reads \subseteq Subs(depSets, stack[i].eff)

\* C8: whenever run() of an active effect is left, by a return or by an error
\* of the body, at any depth of nesting, activeEffect, shouldTrack, the depth
\* and trackOpBit are what they were when run() was entered, the parent
\* reference is cleared, a deferred stop has been carried out (the effect is
\* inactive, its hook was invoked once, and the stop unsubscribed it if it
\* was still active), and an error keeps going up.
C8_ContextRestoredOnExit ==
  [][(~Idle /\ Top.kind = "run" /\ stack' = Pop) =>
       /\ activeEffect' = Top.entryActive
       /\ shouldTrack' = Top.lastShouldTrack
       /\ effectTrackDepth' = Top.entryDepth
       /\ trackOpBit' = Shl1(Top.entryDepth)
       /\ parent'[Top.eff] = None
       /\ deferStop[Top.eff] =>
            /\ ~active'[Top.eff]
            /\ onStopCalls'[Top.eff] = 1
            /\ active[Top.eff] =>
                 (deps'[Top.eff] = <<>> /\ Subs(depSets', Top.eff) = {})
       /\ exc' = exc]_vars
\* An error has left the run of an inner effect that had stopped itself and
\* had been entered with tracking paused; it is now in the outer run.
C8_Witness ==
  /\ exc
  /\ ~Idle /\ Top.kind = "run"
  /\ ~shouldTrack
  /\ \E e \in Effects : e # Top.eff /\ ~active[e] /\ deferStop[e] /\ parent[e] = None
  /\ activeEffect = Top.eff /\ effectTrackDepth = 1

\* The body of e reads a location and later triggers that same location.
SelfWriter(e) ==
  \E i, j \in 1..Len(script[e]) :
    /\ i < j
    /\ script[e][i].op = "track" /\ script[e][j].op = "trigger"
    /\ script[e][i].loc = script[e][j].loc
BodiesOf(e) == {i \in 1..Len(stack) : IsBody(stack[i]) /\ stack[i].eff = e}
\* C3: an effect without allowRecurse whose body reads a location and then
\* triggers it never has two executions of its body in progress; it has
\* executed its body at most once for its creation plus once per trigger of
\* a location it reads that was issued outside its own run, and exactly that
\* many times whenever all calls have returned.
C3_OncePerExternalTrigger ==
  \A e \in Effects :
    (SelfWriter(e) /\ ~allowRecurse[e]) =>
      /\ Cardinality(BodiesOf(e)) <= 1
      /\ count.runs[e] = 0 => count.ext[e] = 0
      /\ count.runs[e] <= 1 + count.ext[e]
      /\ (Idle /\ count.runs[e] > 0) => count.runs[e] = 1 + count.ext[e]
\* e1, run for an external trigger, has triggered its own location and the
\* loop of that trigger has gone past e1 without a second execution.
C3_Witness ==
  /\ Len(stack) = 3
  /\ stack[1].kind = "trig" /\ stack[2].kind = "run" /\ stack[2].eff = "e1"
  /\ stack[3].kind = "trig" /\ "e1" \in Range(SubSeq(stack[3].effects, 1, stack[3].i - 1))
  /\ activeEffect = "e1"
  /\ count.runs["e1"] = 3 /\ count.ext["e1"] = 2

\* A step that is a read of the computed's value.
ValueRead == DoValue
\* C9: the getter is invoked by reads of .value only; a read invokes it once
\* if it was never invoked or a location it read has been triggered since its
\* last invocation, and not at all otherwise.
C9_ComputedLaziness ==
  [][/\ count'.runs[CompEffect] # count.runs[CompEffect] => ValueRead
     /\ ValueRead =>
          count'.runs[CompEffect] =
            IF count.runs[CompEffect] = 0 \/ count.stale
            THEN count.runs[CompEffect] + 1 ELSE count.runs[CompEffect]]_vars

\* The loop of triggerEffects is about to call the scheduler of the computed.
AtScheduler ==
  /\ ~exc /\ ~Idle
  /\ Top.kind = "trig" /\ Top.i <= Len(Top.effects)
  /\ Top.effects[Top.i] = CompEffect
  /\ Invokes(CompEffect)
Subscribers == IF Made(CompDep) THEN depSets[CompDep].set ELSE <<>>
\* C10: the scheduler, called while the computed is clean, makes it dirty and
\* starts the loop over the computed's own Dependency Set; called while the
\* computed is dirty it changes nothing and no subscriber is invoked: the
\* loop that called it just moves on.
C10_SchedulerOnlyWhenClean ==
  [][AtScheduler =>
       LET base == [stack EXCEPT ![Len(stack)].i = @ + 1]
       IN IF dirty
          THEN /\ stack' = base
               /\ UNCHANGED <<effVars, optVars, store, depSets, targetMap, ctxVars, trackStack,
                              compVars, exc, onStopCalls, count>>
          ELSE /\ dirty'
               /\ stack' = IF Subscribers = <<>> THEN base
                           ELSE Append(base, [Frame("trig", None) EXCEPT
                                                !.effects = Subscribers])
               /\ UNCHANGED <<effVars, depSets, count>>]_vars
\* An upstream trigger reaches the scheduler while the computed is dirty and
\* has a subscriber.
C10_Witness ==
  /\ AtScheduler
  /\ dirty
  /\ Subscribers # <<>>
  /\ count.runs[CompEffect] > 0

\* The loop on top of the stack has gone through its copy and returns next.
LoopDone == ~Idle /\ Top.kind = "trig" /\ Top.i > Len(Top.effects)
\* A step in which the body of an effect reads the computed's value with
\* tracking enabled.
TrackedValueRead == DoValue /\ Tracks /\ activeEffect \in Effects
\* A step that triggers a location the getter read while the computed is clean
\* and has subscribers.
UpstreamTrigger ==
  \E c \in TriggerCalls : DoTrigger(c) /\ Owed(<<c[1], c[3]>>) # {}
GetterStarted ==
  /\ Len(stack') = Len(stack) + 2
  /\ stack'[Len(stack') - 1].kind = "get"
  /\ IsBody(stack'[Len(stack')])
  /\ stack'[Len(stack')].eff = CompEffect /\ stack'[Len(stack')].pc = 1
\* C12: with caching disabled every read of .value starts the getter's body
\* once, whether the dirty flag is set or not, and nothing else starts it.
C12_UncachedReadAlwaysRecomputes ==
  [][/\ ValueRead => GetterStarted
     /\ (Len(stack') > Len(stack) /\ stack'[Len(stack')].eff = CompEffect
          /\ IsBody(stack'[Len(stack')])) => ValueRead]_vars
\* A later read, made by an effect re-run for a trigger while the dirty flag
\* is clear, has started the getter again.
C12_Witness ==
  /\ ~cacheable /\ ~dirty /\ hasValue
  /\ Len(stack) = 4
  /\ stack[1].kind = "trig" /\ stack[2].kind = "run" /\ stack[3].kind = "get"
  /\ stack[4].kind = "fn" /\ stack[4].eff = CompEffect
  /\ count.runs[CompEffect] >= 3

\* C13: a call of track while shouldTrack is false or no effect is active
\* leaves the graph (targetMap, every Dependency Set, every effect's deps) as
\* it is; a call while both hold leaves the location with a Dependency Set
\* that targetMap knows.
C13_TrackNoOpUnlessTracking ==
  [][\A l \in BodyLocs :
       DoTrack(l) =>
         IF shouldTrack /\ activeEffect # None
         THEN l \in DOMAIN depSets' /\ l[2] \in Range(targetMap'[l[1]])
         ELSE UNCHANGED <<depSets, targetMap, deps>>]_vars
\* The body of a running effect has paused tracking and can read a location
\* that has no Dependency Set yet.
C13_Witness ==
  /\ ~exc /\ ~Idle /\ Top.kind = "run"
  /\ ~shouldTrack /\ activeEffect = Top.eff
  /\ <<"obj", "a">> \notin DOMAIN depSets
  /\ Top.reads = {}

NoDuplicates(seq) == Cardinality(Range(seq)) = Len(seq)
\* C14: the loop of a trigger goes through a list that holds each effect at
\* most once, taken before the first effect is invoked: the list of a loop on
\* the stack never changes, whatever the invoked effects subscribe to, and the
\* loop moves through it one effect at a time.
C14_EachEffectOncePerTrigger ==
  [][/\ \A i \in 1..Len(stack) : stack[i].kind = "trig" => NoDuplicates(stack[i].effects)
     /\ \A i \in 1..Len(stack) :
          (stack[i].kind = "trig" /\ i <= Len(stack')) =>
            /\ stack'[i].kind = "trig"
            /\ stack'[i].effects = stack[i].effects
            /\ stack'[i].i = IF i = Len(stack) /\ Len(stack') >= Len(stack)
                              THEN stack[i].i + 1 ELSE stack[i].i]_vars
\* The loop of an add on a plain object, whose key set and iteration set both
\* hold e1, has invoked e1, which has subscribed to both sets again.
C14_Witness ==
  /\ Len(stack) = 2
  /\ stack[1].kind = "trig" /\ stack[1].effects = <<"e1">> /\ stack[1].i = 2
  /\ stack[2].kind = "run" /\ stack[2].eff = "e1"
  /\ stack[2].reads = {<<"obj", "a">>, <<"obj", ITERATE_KEY>>}
  /\ "e1" \in Range(depSets[<<"obj", "a">>].set)
  /\ "e1" \in Range(depSets[<<"obj", ITERATE_KEY>>].set)

\* The loop on top of the stack is about to call triggerEffect(e).
AtDispatch(e) ==
  /\ ~exc /\ ~Idle
  /\ Top.kind = "trig" /\ Top.i <= Len(Top.effects)
  /\ Top.effects[Top.i] = e
\* The loop on top of the stack, moved on by one effect.
MovedOn == [stack EXCEPT ![Len(stack)].i = @ + 1]
\* C15: triggerEffect(e) invokes nothing when e is the running effect and
\* allowRecurse is not set; otherwise it invokes the scheduler of e and
\* starts no body if e has a scheduler, and run() of e if it has none: the
\* body of e starts, or, when e is already running, run() returns at once.
C15_TriggerEffectDispatch ==
  [][\A e \in AllEffects :
       AtDispatch(e) =>
         IF e = activeEffect /\ ~allowRecurse[e]
         THEN /\ stack' = MovedOn
              /\ UNCHANGED <<effVars, depSets, ctxVars, compVars, count>>
         ELSE IF scheduler[e] = "job"
         THEN /\ stack' = MovedOn
              /\ count.sched[e] <= MaxTriggers + 1
              /\ count' = [count EXCEPT !.sched[e] = @ + 1]
              /\ UNCHANGED <<effVars, depSets, ctxVars, compVars>>
         ELSE IF scheduler[e] = "computed"
         THEN /\ count' = count
              /\ \A i \in 1..Len(stack') : ~(IsBody(stack'[i]) /\ stack'[i].eff = e)
              /\ dirty'
              /\ UNCHANGED <<effVars, depSets, ctxVars>>
         ELSE IF InRun(e)
         THEN /\ stack' = MovedOn
              /\ UNCHANGED <<effVars, depSets, ctxVars, compVars, count>>
         ELSE /\ Len(stack') = Len(stack) + 1
              /\ stack'[Len(stack')].kind = "run" /\ stack'[Len(stack')].eff = e
              /\ stack'[Len(stack')].pc = 1
              /\ activeEffect' = e
              /\ count'.sched = count.sched]_vars
\* e1, with allowRecurse set, has triggered the location it reads from its own
\* body, and the loop of that trigger has called its scheduler.
C15_Witness ==
  /\ allowRecurse["e1"]
  /\ Len(stack) = 2
  /\ stack[1].kind = "run" /\ stack[1].eff = "e1" /\ activeEffect = "e1"
  /\ stack[2].kind = "trig" /\ stack[2].effects[1] = "e1" /\ stack[2].i = 2
  /\ count.sched["e1"] = 1 /\ count.runs["e1"] = 1

\* The effects subscribed to one of the keys ks of target t.
SubscribedTo(t, ks) ==
  {e \in AllEffects :
     \E k \in ks : <<t, k>> \in DOMAIN depSets /\ e \in Range(depSets[<<t, k>>].set)}
\* C16: a trigger on the key length of the array with new length n invokes
\* exactly the effects subscribed to length or to an index key >= n.
C16_LengthTrigger ==
  \A n \in Lengths :
    Collects("arr", "set", "length", n)
      = SubscribedTo("arr", {"length"} \cup {k \in IndexKeys : KeyNum(k) >= n})

\* The keys whose Dependency Sets the claim says an add on (t, k) affects.
AddAffects(t, k) ==
  {k} \cup (IF isArray(t) /\ isIntegerKey(k) THEN {"length"}
            ELSE {ITERATE_KEY} \cup (IF isMap(t) THEN {MAP_KEY_ITERATE_KEY} ELSE {}))
\* C17: a trigger of kind add on (t, k) invokes exactly the effects
\* subscribed to k, and to length if t is the array and k an integer key, and
\* otherwise to the iteration key (and the map-key-iteration key if t is the
\* map).
C17_AddTrigger ==
  \A c \in KeyTriggerCalls :
    c[2] = "add" => Collects(c[1], c[2], c[3], c[4]) = SubscribedTo(c[1], AddAffects(c[1], c[3]))

\* The keys whose Dependency Sets the claim says a delete and a set on (t, k)
\* affect.
DeleteAffects(t, k) ==
  {k, ITERATE_KEY} \cup (IF isMap(t) THEN {MAP_KEY_ITERATE_KEY} ELSE {})
SetAffects(t, k) == {k} \cup (IF isMap(t) THEN {ITERATE_KEY} ELSE {})
\* C18: a trigger of kind delete on (t, k) invokes exactly the effects
\* subscribed to k or to the iteration key (or to the map-key-iteration key if
\* t is the map); a trigger of kind set on a key other than length invokes
\* exactly the effects subscribed to k, and to the iteration key if t is the
\* map.
C18_DeleteAndSetTrigger ==
  \A c \in KeyTriggerCalls :
    /\ c[2] = "delete" =>
         Collects(c[1], c[2], c[3], c[4]) = SubscribedTo(c[1], DeleteAffects(c[1], c[3]))
    /\ (c[2] = "set" /\ c[3] # "length") =>
         Collects(c[1], c[2], c[3], c[4]) = SubscribedTo(c[1], SetAffects(c[1], c[3]))


\* C19: a write through the set trap or the ref that stores the value already
\* held at an existing key issues no trigger; a write that changes the value
\* of an existing key issues a set trigger; a write to a key that did not
\* exist issues an add trigger.
C19_WriteTriggers ==
  /\ \A c \in SetCalls :
       SetterTrigger(c[1], c[2], c[3])
         = (IF ~hasOwn(c[1], c[2]) THEN "add"
            ELSE IF c[3] = OldValue(c[1], c[2]) THEN "none"
            ELSE "set")
  /\ \A v \in Values : RefTrigger(v) = (IF v = store.ref THEN "none" ELSE "set")
\* The same with the set trap's own notion of an existing key.
C19_WriteTriggersHadKey ==
  /\ \A c \in SetCalls :
       SetterTrigger(c[1], c[2], c[3])
         = (IF ~hadKey(c[1], c[2]) THEN "add"
            ELSE IF c[3] = OldValue(c[1], c[2]) THEN "none"
            ELSE "set")
  /\ \A v \in Values : RefTrigger(v) = (IF v = store.ref THEN "none" ELSE "set")


\* The call that opened the scope a resetTracking closes: scanning the
\* program backwards from position i, skipping the scopes closed in between,
\* by a reset or by the reset in a run of e2 (0 if there is none).
RECURSIVE Opener(_, _, _)
Opener(prog, i, closed) ==
  IF i = 0 THEN 0
  ELSE IF prog[i].op \in {"reset", "run"} THEN Opener(prog, i - 1, closed + 1)
  ELSE IF closed = 0 THEN i
  ELSE Opener(prog, i - 1, closed - 1)
\* shouldTrack after the first p calls of a program entered with shouldTrack
\* true, by scopes: false after a pause, true after an enable, after a reset
\* the value before the call that opened the scope (true if none did), and
\* after a run what it was before the run.
RECURSIVE ScopedValue(_, _)
ScopedValue(prog, p) ==
  IF p = 0 THEN TRUE
  ELSE IF prog[p].op = "pause" THEN FALSE
  ELSE IF prog[p].op = "enable" THEN TRUE
  ELSE IF prog[p].op = "run" THEN ScopedValue(prog, p - 1)
  ELSE LET i == Opener(prog, p - 1, 0)
       IN IF i = 0 THEN TRUE ELSE ScopedValue(prog, i - 1)
\* The body of e1 is running, p of its calls made.
InProgram(p) == ~Idle /\ Top.kind = "run" /\ Top.eff = "e1" /\ Top.pc = p + 1
\* C20: pauseTracking and enableTracking push shouldTrack and set it to false
\* / true, resetTracking restores the most recently pushed value: after every
\* reset shouldTrack is what it was just before the matching pause or enable,
\* and true if the stack was empty.
C20_TrackingScopes ==
  \A p \in 0..MaxProgram :
    InProgram(p) /\ p <= Len(script["e1"]) => shouldTrack = ScopedValue(script["e1"], p)
\* An inner and an outer scope have been closed: pause, enable, reset, reset.
C20_Witness ==
  /\ InProgram(4)
  /\ script["e1"] = <<[op |-> "pause"], [op |-> "enable"], [op |-> "reset"], [op |-> "reset"]>>
  /\ shouldTrack
  /\ trackStack = <<>>
\* The inner reset of a nested pair restores the paused state.
C20_WitnessInner ==
  /\ InProgram(3)
  /\ SubSeq(script["e1"], 1, 3) = <<[op |-> "pause"], [op |-> "enable"], [op |-> "reset"]>>
  /\ ~shouldTrack
\* A reset on an empty stack has turned tracking back on: the run of e2 closed
\* the scope of the pause and left shouldTrack false.
C20_WitnessEmpty ==
  /\ InProgram(3)
  /\ SubSeq(script["e1"], 1, 3)
       = <<[op |-> "pause"], [op |-> "run", eff |-> "e2"], [op |-> "reset"]>>
  /\ shouldTrack


\* The members of the Dependency Set d in the graph ds (none if it is not made).
MembersIn(ds, d) == IF d \in DOMAIN ds THEN Range(ds[d].set) ELSE {}
\* The body of an inactive effect, called by run() directly, is executing.
InInactiveBody == ~Idle /\ Top.kind = "fn"
\* C21: run() of an inactive effect executes its body, and the reads of that
\* body mutate no graph: no Dependency Set gains or loses a member and no
\* effect's dependency list changes, also when run() was called from the body
\* of another, active, running effect.
C21_InactiveRunNoGraphMutation ==
  [][\A l \in BodyLocs :
       InInactiveBody /\ DoTrack(l) =>
         /\ \A d \in DepIds : MembersIn(depSets', d) = MembersIn(depSets, d)
         /\ deps' = deps]_vars
\* The same for the bodies run() calls while no effect is active.
C21_InactiveRunOutsideEffects ==
  [][\A l \in BodyLocs :
       InInactiveBody /\ activeEffect = None /\ DoTrack(l) =>
         /\ \A d \in DepIds : MembersIn(depSets', d) = MembersIn(depSets, d)
         /\ deps' = deps]_vars


\* The first position of x in the sequence m.
FirstIndex(m, x) == CHOOSE i \in 1..Len(m) : m[i] = x /\ \A j \in 1..(i - 1) : m[j] # x
\* s lists the elements of m in the order of their first occurrences in m.
InCollectionOrder(s, m) ==
  /\ Range(s) = Range(m)
  /\ \A i, j \in 1..Len(s) : i < j => FirstIndex(m, s[i]) < FirstIndex(m, s[j])
\* C22: the loop of a trigger goes through the effects in the order in which
\* the affected Dependency Sets were collected and, within a set, in insertion
\* order, computed-backed effects at their own place; each turn of the loop
\* invokes the next effect of that list.
C22_InvocationOrder ==
  [][/\ \A c \in OrderCalls :
          (DoTrigger(c) /\ Len(stack') > Len(stack)) =>
            InCollectionOrder(stack'[Len(stack')].effects,
                              Members(TriggerDeps(c[1], c[2], c[3], c[4])))
     /\ \A e \in AllEffects :
          AtDispatch(e) =>
            /\ stack'[Len(stack)].i = Top.i + 1
            /\ (Len(stack') > Len(stack) /\ IsBody(stack'[Len(stack')]))
                 => stack'[Len(stack')].eff = e]_vars
\* The loop of an add goes through a plain effect, the computed's effect and
\* another plain effect, in the order the key set and the iteration set hold
\* them, and has invoked the first.
C22_Witness ==
  /\ Len(stack) = 2
  /\ stack[1].kind = "trig" /\ stack[1].i = 2
  /\ Len(stack[1].effects) = 3
  /\ stack[1].effects[2] = CompEffect
  /\ stack[2].kind = "run" /\ stack[2].eff = stack[1].effects[1]


\* C23: in every reachable state an effect is a member of a Dependency Set
\* exactly when the set occurs in the effect's dependency list, and no set
\* occurs twice in one list.
C23_BidirectionalConsistency ==
  \A e \in AllEffects :
    /\ NoDuplicates(deps[e])
    /\ \A d \in DepIds : e \in MembersIn(depSets, d) <=> d \in Range(deps[e])
\* One effect is subscribed to two sets after its run; the other, which was
\* subscribed, has been stopped.
C23_Witness ==
  /\ Idle
  /\ Len(deps["e1"]) = 2
  /\ ~active["e2"] /\ deps["e2"] = <<>>
  /\ \E d \in DOMAIN depSets : depSets[d].set = <<"e1">>


\* C24: while an effect body executes, effectTrackDepth is the number of
\* effects on the chain from activeEffect through the parent references (the
\* runs in progress) and trackOpBit is 1 << effectTrackDepth; when no effect is
\* running the depth is 0, activeEffect is empty and so is every parent
\* reference.
C24_DepthMatchesChain ==
  /\ effectTrackDepth = Len(Chain)
  /\ Len(Chain) = Len(RunEffs)
  /\ trackOpBit = Pow2(Len(Chain))
  /\ RunEffs = <<>> =>
       /\ effectTrackDepth = 0
       /\ activeEffect = None
       /\ \A e \in AllEffects : parent[e] = None
\* Two runs are nested: the inner effect's parent is the outer effect.
C24_Witness ==
  /\ Len(RunEffs) = 2 /\ effectTrackDepth = 2 /\ trackOpBit = 4
  /\ Top.kind = "run" /\ activeEffect = Top.eff
  /\ parent[Top.eff] # None /\ parent[parent[Top.eff]] = None


\* The body on top of the stack was started by the loop of a trigger and reads
\* a location the getter of the computed reads.
TriggeredSourceReader ==
  /\ Len(stack) >= 2
  /\ Top.kind = "run" /\ stack[Len(stack) - 1].kind = "trig"
  /\ ReadLocs(Top.eff) \cap ReadLocs(CompEffect) # {}
\* C25: an effect body run by a trigger that reads a source location and the
\* computed derived from it never receives a value cached before the source
\* was triggered: if a location the getter read has been triggered since the
\* getter last started, the read of .value starts the getter again.
C25_NoStaleComputedRead ==
  [][(TriggeredSourceReader /\ ValueRead /\ count.stale)
       => count'.runs[CompEffect] = count.runs[CompEffect] + 1]_vars
\* The same for the bodies whose loop has the computed's effect behind it: its
\* scheduler has run before the body reads.
C25_NoStaleReadAfterScheduler ==
  [][(TriggeredSourceReader /\ ValueRead /\ count.stale
      /\ \E i \in 1..(stack[Len(stack) - 1].i - 1) :
           stack[Len(stack) - 1].effects[i] = CompEffect)
       => count'.runs[CompEffect] = count.runs[CompEffect] + 1]_vars


\* The bodies executing, one inside the other.
Bodies == SelectSeq(stack, IsBody)
\* The body of a stopped effect is executing inside itself.
InactiveRecursion ==
  \E i, j \in 1..Len(stack) :
    i < j /\ stack[i].kind = "fn" /\ stack[j].kind = "fn" /\ stack[i].eff = stack[j].eff
\* The calls in progress were started by a trigger of top-level code.
InTrigger == ~Idle /\ stack[1].kind = "trig"
\* C26: a trigger issued by top-level code returns: the runs it starts never
\* nest deeper than there are effects, and the stack is empty again after
\* finitely many calls, also when effects have been stopped.
C26_TriggerTerminates ==
  /\ [](InTrigger => Len(Bodies) <= Cardinality(AllEffects))
  /\ (InTrigger ~> Idle)
\* The same as long as no stopped effect runs itself from its own body.
C26_TerminatesWithoutInactiveRecursion ==
  /\ []((InTrigger /\ ~InactiveRecursion) => Len(Bodies) <= Cardinality(AllEffects))
  /\ (InTrigger ~> (Idle \/ InactiveRecursion))


\* C27: once stop() has been carried out on an effect (the effect is
\* inactive), no loop of a trigger starts its body or calls its scheduler,
\* also not a loop that was in progress when another effect stopped it.
C27_StoppedNeverInvoked ==
  [][\A e \in AllEffects :
       (AtDispatch(e) /\ ~active[e]) =>
         /\ ~(Len(stack') > Len(stack) /\ IsBody(stack'[Len(stack')]))
         /\ count'.sched[e] = count.sched[e]]_vars


\* An error thrown by the getter leaves get value().
GetterThrew == exc /\ ~Idle /\ Top.kind = "get" /\ Unwind
\* C28: if the getter throws during a read of .value of a dirty computed, the
\* computed is dirty afterwards, so that the next read of .value invokes the
\* getter again.
C28_DirtyAfterGetterThrows ==
  [][GetterThrew => dirty']_vars
\* A getter that returns leaves the computed clean, with its value assigned.
C28_CleanAfterGetterReturns ==
  [][GetReturn => (~dirty' /\ hasValue')]_vars


\* run() has just started the body of an active effect.
RunStarted == Len(stack') = Len(stack) + 1 /\ stack'[Len(stack')].kind = "run"
\* run() of an active effect is left, by a return or by an error.
RunLeft == ~Idle /\ Top.kind = "run" /\ stack' = Pop
\* C29: a run of an active effect that starts while shouldTrack is false has
\* tracking enabled for its body and ends with the effect subscribed to the
\* locations the body read; when the run is left shouldTrack is false again,
\* and run() leaves trackStack as it is.
C29_RunWhilePaused ==
  [][/\ (RunStarted /\ ~shouldTrack) => (shouldTrack' /\ trackStack' = trackStack)
     /\ (RunLeft /\ ~Top.lastShouldTrack) =>
          /\ ~shouldTrack'
          /\ trackStack' = trackStack
          /\ (~exc /\ active'[Top.eff] /\ ~deferStop'[Top.eff])
               => Top.reads \subseteq Subs(depSets', Top.eff)]_vars
\* The same, the subscriptions only as long as no effect has been stopped.
C29_RunWhilePausedNoStop ==
  [][/\ (RunStarted /\ ~shouldTrack) => (shouldTrack' /\ trackStack' = trackStack)
     /\ (RunLeft /\ ~Top.lastShouldTrack) =>
          /\ ~shouldTrack'
          /\ trackStack' = trackStack
          /\ (~exc /\ \A e \in AllEffects : e = CompEffect \/ (active'[e] /\ ~deferStop'[e]))
               => Top.reads \subseteq Subs(depSets', Top.eff)]_vars

====
